---- MODULE Spec2Model ----
(***************************************************************************)
(* Model of the notebook "1) Data Merging.ipynb": the consumption/tariff   *)
(* pipeline (cells 2-6) and the weather pipeline (cells 7-9).              *)
(*                                                                         *)
(* Time.  Consumption and tariff timestamps (column GMT) are counted in    *)
(* half-hours from 2013-01-01 00:00, so GMT = 0 is the year-start row,     *)
(* GMT = YearLen is 2014-01-01 00:00 and negative values lie in 2012.      *)
(* Weather timestamps (column datetime) are counted in hours.              *)
(*                                                                         *)
(* Numbers.  A cell of a numeric column is a pair <<n, d>>: the rational   *)
(* n/d in lowest terms with d > 0, or NaN when d = 0.  Floating-point      *)
(* rounding is not modelled.                                               *)
(***************************************************************************)
EXTENDS Integers, Sequences, FiniteSets, TLC

\* ------------------------------------------------------------- bounds
\* Hours in the modelled year 2013 (8760 in the data).
YearHours == 21
\* Largest number of missing readings drawn for one household column.
MaxMissing == 3
\* Largest weather timestamp (hours) drawn for a source row.
MaxHour == 5
\* Largest number of rows in one weather source file.
MaxFileRows == 2

YearLen == 2 * YearHours

\* ------------------------------------------------------------- numbers
Abs(x) == IF x < 0 THEN -x ELSE x

RECURSIVE GCD(_, _)
GCD(a, b) == IF b = 0 THEN a ELSE GCD(b, a % b)

NaN == <<0, 0>>
isnull(v) == v[2] = 0

\* n/d in lowest terms with a positive denominator; x/0 is NaN.
Rat(n, d) ==
    IF d = 0 THEN NaN
    ELSE LET g == GCD(Abs(n), Abs(d))
             sgn == IF d < 0 THEN -1 ELSE 1
         IN <<sgn * (n \div g), sgn * (d \div g)>>
Num(n) == <<n, 1>>

RAdd(a, b) == Rat(a[1] * b[2] + b[1] * a[2], a[2] * b[2])
RSub(a, b) == Rat(a[1] * b[2] - b[1] * a[2], a[2] * b[2])
RMul(a, b) == Rat(a[1] * b[1], a[2] * b[2])
\* a / k for an integer k > 0
RDivInt(a, k) == Rat(a[1], a[2] * k)
RLe(a, b) == a[1] * b[2] <= b[1] * a[2]
RGt(a, b) == a[1] * b[2] > b[1] * a[2]

Max(S) == CHOOSE x \in S : \A y \in S : y <= x
Min(S) == CHOOSE x \in S : \A y \in S : x <= y

RECURSIVE SeqSum(_)
\* Sum of the non-null cells of a sequence (pandas sum/mean skip NaN).
SeqSum(s) ==
    IF s = <<>> THEN Num(0)
    ELSE IF isnull(Head(s)) THEN SeqSum(Tail(s))
    ELSE RAdd(Head(s), SeqSum(Tail(s)))

\* The sequence s with every element evaluated (a tuple, not a lazily
\* evaluated function).
Concrete(s) == SubSeq(s, 1, Len(s))

RECURSIVE SortedSeq(_)
\* The integers of S in ascending order.
SortedSeq(S) ==
    IF S = {} THEN <<>>
    ELSE LET m == Min(S) IN <<m>> \o SortedSeq(S \ {m})

\* ------------------------------------------------------------- state
VARIABLES
    pc,                          \* the next notebook cell to run
    tariff_data,                 \* rows [GMT, Price]
    consumption_data,            \* rows [GMT, cols], cols: household -> cell
    tariff_data_filtered,
    consumption_data_filtered,
    consumption_melted,          \* rows [GMT, household_id, consumption]
    households_to_remove,
    consumption_melted_filtered,
    consumption_imputed,
    missing_values_after_imputation,
    consumption_hourly,          \* rows [hour, household_id, consumption]
    tariff_hourly,               \* rows [hour, Price]
    merged_data,                 \* rows [timestamp, household_id, consumption, tariff]
    csv_1a,                      \* the written consumption/tariff file
    weather_csv,                 \* the weather source files, in reading order
    merged_df,                   \* rows [datetime, vals, src]; src is the
                                 \* row's origin <<file, row>> (history)
    dedup_df,                    \* merged_df right after line 221 (history)
    csv_1b                       \* the written weather file

vars == <<pc, tariff_data, consumption_data, tariff_data_filtered,
          consumption_data_filtered, consumption_melted, households_to_remove,
          consumption_melted_filtered, consumption_imputed,
          missing_values_after_imputation, consumption_hourly, tariff_hourly,
          merged_data, csv_1a, weather_csv, merged_df, dedup_df, csv_1b>>

ctVars == <<tariff_data, consumption_data, tariff_data_filtered,
            consumption_data_filtered, consumption_melted, households_to_remove,
            consumption_melted_filtered, consumption_imputed,
            missing_values_after_imputation, consumption_hourly, tariff_hourly,
            merged_data, csv_1a>>

wVars == <<weather_csv, merged_df, dedup_df, csv_1b>>

NotWritten == <<"not written">>

\* ------------------------------------------------------------- inputs
\* The household columns of consumption_d.csv, in file order.
HouseholdCols == <<"MAC001", "MAC002">>
Households == {HouseholdCols[i] : i \in 1..Len(HouseholdCols)}
ColIdx(h) == CHOOSE i \in 1..Len(HouseholdCols) : HouseholdCols[i] = h

\* Which half-hourly rows a file holds: first..last without the absent ones.
GridTimes(shape) == {t \in shape.first..shape.last : t \notin shape.absent}

\* A consumption file with the last 2012 row and the 2014-01-01 00:00 row;
\* one holding 2013 only, a half-hour absent; one that starts at 01:00.
FullYear   == [first |-> -1, last |-> YearLen, absent |-> {}, seed |-> 0]
WithHole   == [first |-> 0, last |-> YearLen - 1, absent |-> {YearHours + 1}, seed |-> 1]
LateStart  == [first |-> 2, last |-> YearLen + 1, absent |-> {}, seed |-> 1]
\* A tariff file covering the year, one covering part of it with a half-hour
\* absent, one with no 2013 row.
TariffFull == [first |-> -1, last |-> YearLen, absent |-> {}, seed |-> 0]
TariffPart == [first |-> 5, last |-> YearLen - 4, absent |-> {10}, seed |-> 1]
TariffNone == [first |-> YearLen, last |-> YearLen + 1, absent |-> {}, seed |-> 0]

\* The pairs (consumption file, tariff file) drawn.
Scenarios ==
    { <<FullYear, TariffFull>>, <<FullYear, TariffPart>>, <<WithHole, TariffPart>>,
      <<LateStart, TariffNone>>, <<LateStart, TariffFull>> }

\* The timestamps at which a reading may be missing.
MissCand == {1, 2, YearHours, YearHours + 1, YearLen - 1}
MissSets == {S \in SUBSET MissCand : Cardinality(S) <= MaxMissing}

\* The known reading of household h at time t.
Reading(h, t, seed) == Num((((t + 2) * (ColIdx(h) + seed + 1)) % 7) + ColIdx(h) - 1)
PriceAt(t, seed) == Num((((t + 3) * (seed + 2)) % 5) + 1)

ConsumptionTable(shape, miss, seed) ==
    LET ts == SortedSeq(GridTimes(shape))
    IN [i \in 1..Len(ts) |->
          [GMT |-> ts[i],
           cols |-> [h \in Households |->
                       IF ts[i] \in miss[h] THEN NaN
                       ELSE Reading(h, ts[i], seed)]]]

TariffTable(shape, seed) ==
    LET ts == SortedSeq(GridTimes(shape))
    IN [i \in 1..Len(ts) |-> [GMT |-> ts[i], Price |-> PriceAt(ts[i], seed)]]

\* ------------------------------------------------------------- cell 2
\* GMT.dt.year
YearOf(t) == IF t < 0 THEN 2012 ELSE IF t < YearLen THEN 2013 ELSE 2014

InYear(row) == YearOf(row.GMT) = 2013
InYearNotStart(row) == YearOf(row.GMT) = 2013 /\ row.GMT # 0

FilterYear ==
    /\ pc = "cell2"
    /\ tariff_data_filtered' = SelectSeq(tariff_data, InYear)
    /\ consumption_data_filtered' = SelectSeq(consumption_data, InYearNotStart)
    /\ pc' = "cell3"
    /\ UNCHANGED <<tariff_data, consumption_data, consumption_melted,
                   households_to_remove, consumption_melted_filtered,
                   consumption_imputed, missing_values_after_imputation,
                   consumption_hourly, tariff_hourly, merged_data, csv_1a>>
    /\ UNCHANGED wVars

\* ------------------------------------------------------------- cell 3
RECURSIVE melt(_, _)
\* DataFrame.melt(id_vars=['GMT']): one block of rows per value column, the
\* columns in file order.
melt(df, cols) ==
    IF cols = <<>> THEN <<>>
    ELSE Concrete([i \in 1..Len(df) |->
                     [GMT |-> df[i].GMT,
                      household_id |-> Head(cols),
                      consumption |-> df[i].cols[Head(cols)]]])
         \o melt(df, Tail(cols))

\* groupby('household_id').size()
GroupSize(df, h) == Cardinality({k \in 1..Len(df) : df[k].household_id = h})

\* df[df['consumption'].isnull()].groupby('household_id').size()
\*   .reindex(all_households.index, fill_value=0)
MissingValues(df, h) ==
    Cardinality({k \in 1..Len(df) :
                    df[k].household_id = h /\ isnull(df[k].consumption)})

\* (missing_values / size) * 100
PercentageMissing(df, h) ==
    RMul(Rat(MissingValues(df, h), GroupSize(df, h)), Num(100))

MissingThreshold == 5

ExceedsThresholdOrEqual(pct) == ~isnull(pct) /\ RLe(Num(MissingThreshold), pct)
\* all_households['percentage_missing'] > 5 (a NaN percentage compares False)
ExceedsThreshold(pct) == ~isnull(pct) /\ RGt(pct, Num(MissingThreshold))

\* The index of all_households: the household ids that have rows.
AllHouseholds(df) == {df[k].household_id : k \in 1..Len(df)}

HouseholdsToRemove(df) ==
    {h \in AllHouseholds(df) : ExceedsThreshold(PercentageMissing(df, h))}

\* consumption_melted[~consumption_melted['household_id'].isin(households_to_remove)]
RemoveHouseholds(df, remove) ==
    LET Kept(row) == row.household_id \notin remove
    IN SelectSeq(df, Kept)

MeltAndRemove ==
    /\ pc = "cell3"
    /\ consumption_melted' = melt(consumption_data_filtered, HouseholdCols)
    /\ households_to_remove' = HouseholdsToRemove(consumption_melted')
    /\ consumption_melted_filtered' =
          RemoveHouseholds(consumption_melted', households_to_remove')
    /\ pc' = "cell4"
    /\ UNCHANGED <<tariff_data, consumption_data, tariff_data_filtered,
                   consumption_data_filtered, consumption_imputed,
                   missing_values_after_imputation, consumption_hourly,
                   tariff_hourly, merged_data, csv_1a>>
    /\ UNCHANGED wVars

\* ------------------------------------------------------------- cell 4
\* A group's series x is a sequence of [GMT, v] in row order.
Known(x, S) == {j \in S : ~isnull(x[j].v)}

\* Series.interpolate(method='time'), the defaults limit_direction='forward'
\* and limit_area=None: a gap with a known reading before and after it is
\* filled linearly in the index (time), a trailing gap with the last known
\* reading, and a leading gap is left NaN.
interpolate_time(x) ==
    Concrete([i \in 1..Len(x) |->
        IF ~isnull(x[i].v) THEN x[i]
        ELSE LET before == Known(x, 1..(i - 1))
                 after  == Known(x, (i + 1)..Len(x))
             IN IF before = {} THEN x[i]
                ELSE IF after = {} THEN [x[i] EXCEPT !.v = x[Max(before)].v]
                ELSE LET lo == x[Max(before)]
                         hi == x[Min(after)]
                         slope == RMul(RSub(hi.v, lo.v),
                                       Rat(1, hi.GMT - lo.GMT))
                     IN [x[i] EXCEPT
                           !.v = RAdd(RMul(slope, Num(x[i].GMT - lo.GMT)), lo.v)]])

\* Series.ffill()
ffill(x) ==
    Concrete([i \in 1..Len(x) |->
        IF ~isnull(x[i].v) \/ Known(x, 1..(i - 1)) = {} THEN x[i]
        ELSE [x[i] EXCEPT !.v = x[Max(Known(x, 1..(i - 1)))].v]])

\* Series.bfill()
bfill(x) ==
    Concrete([i \in 1..Len(x) |->
        IF ~isnull(x[i].v) \/ Known(x, (i + 1)..Len(x)) = {} THEN x[i]
        ELSE [x[i] EXCEPT !.v = x[Min(Known(x, (i + 1)..Len(x)))].v]])

ImputeSeriesNoBfill(x) == ffill(interpolate_time(x))
\* lambda x: x.interpolate(method='time').ffill().bfill()
ImputeSeries(x) == bfill(ffill(interpolate_time(x)))

GroupKeyNone(row) == "all"
\* groupby('household_id')
GroupKey(row) == row.household_id

\* The positions of the rows of df in the group key, ascending.
GroupRows(df, key) == SortedSeq({j \in 1..Len(df) : GroupKey(df[j]) = key})

\* The group's column as a series indexed by GMT.
GroupSeries(df, idx) ==
    Concrete([j \in 1..Len(idx) |->
                [GMT |-> df[idx[j]].GMT, v |-> df[idx[j]].consumption]])

RECURSIVE TransformGroups(_, _)
\* groupby(...)['consumption'].transform(f), one group after the other:
\* every row gets the value f gives at its position in its group's series.
TransformGroups(df, keys) ==
    IF keys = {} THEN df
    ELSE LET key == CHOOSE g \in keys : TRUE
             idx == GroupRows(df, key)
             out == ImputeSeries(GroupSeries(df, idx))
             posOf(k) == CHOOSE j \in 1..Len(idx) : idx[j] = k
             done == Concrete([k \in 1..Len(df) |->
                        IF GroupKey(df[k]) = key
                        THEN [df[k] EXCEPT !.consumption = out[posOf(k)].v]
                        ELSE df[k]])
         IN TransformGroups(done, keys \ {key})

Transform(df) == TransformGroups(df, {GroupKey(df[k]) : k \in 1..Len(df)})

\* consumption_imputed.isnull().sum(); GMT and household_id are never null.
NullCount(df) == Cardinality({k \in 1..Len(df) : isnull(df[k].consumption)})

Impute ==
    /\ pc = "cell4"
    /\ consumption_imputed' = Transform(consumption_melted_filtered)
    /\ missing_values_after_imputation' = NullCount(consumption_imputed')
    /\ pc' = "cell5"
    /\ UNCHANGED <<tariff_data, consumption_data, tariff_data_filtered,
                   consumption_data_filtered, consumption_melted,
                   households_to_remove, consumption_melted_filtered,
                   consumption_hourly, tariff_hourly, merged_data, csv_1a>>
    /\ UNCHANGED wVars

\* ------------------------------------------------------------- cell 5
\* Series.dt.floor('H') of a time given in half-hours
floor_H(t) == (t \div 2) * 2

\* (GMT + pd.Timedelta(minutes=30)).dt.floor('H')
hour(t) == floor_H(t + 1)

\* The sort order of the household_id strings (lexicographic).
HouseholdRank(h) == ColIdx(h)

\* The order of the group keys (hour, household_id).
KeyRank(h, id) == h * (Len(HouseholdCols) + 1) + HouseholdRank(id)

\* GroupBy.sum() of one group: NaN cells are skipped.
GroupSum(s) == SeqSum(s)

\* The consumption cells of the rows of df in group (h, id), in row order.
HourGroup(df, h, id) ==
    LET InGroup(row) == hour(row.GMT) = h /\ row.household_id = id
        rows == SelectSeq(df, InGroup)
    IN Concrete([i \in 1..Len(rows) |-> rows[i].consumption])

\* groupby(['hour', 'household_id'])['consumption'].sum().reset_index():
\* one row per key that occurs, the keys ascending.
ConsumptionHourly(df) ==
    LET K == Len(HouseholdCols) + 1
        ranks == SortedSeq({KeyRank(hour(df[k].GMT), df[k].household_id) :
                              k \in 1..Len(df)})
    IN Concrete([i \in 1..Len(ranks) |->
          LET id == HouseholdCols[ranks[i] % K]
              h  == (ranks[i] - (ranks[i] % K)) \div K
          IN [hour |-> h,
              household_id |-> id,
              consumption |-> GroupSum(HourGroup(df, h, id))]])

\* GroupBy.mean() of one group: the non-null cells' sum over their count,
\* NaN when the group has none.
GroupMean(s) ==
    LET known == SelectSeq(s, LAMBDA v : ~isnull(v))
    IN IF known = <<>> THEN NaN ELSE RDivInt(SeqSum(known), Len(known))

TariffNoOffset(t) == floor_H(t)
\* tariff_data_filtered['hour']
TariffHour(t) == hour(t)

\* groupby('hour')['Price'].mean().reset_index()
TariffHourly(df) ==
    LET hours == SortedSeq({TariffHour(df[k].GMT) : k \in 1..Len(df)})
        prices(h) == LET InHour(row) == TariffHour(row.GMT) = h
                         rows == SelectSeq(df, InHour)
                     IN Concrete([i \in 1..Len(rows) |-> rows[i].Price])
    IN Concrete([i \in 1..Len(hours) |->
                   [hour |-> hours[i], Price |-> GroupMean(prices(hours[i]))]])

MergeRowInner(l, right) ==
    LET Match(r) == r.hour = l.hour
        matches == SelectSeq(right, Match)
    IN Concrete([i \in 1..Len(matches) |->
          [hour |-> l.hour, household_id |-> l.household_id,
           consumption |-> l.consumption, Price |-> matches[i].Price]])
\* The rows pd.merge(how='left', on='hour') makes of one left row: one per
\* matching right row, and one with a NaN Price when none matches.
MergeRow(l, right) ==
    LET Match(r) == r.hour = l.hour
        matches == SelectSeq(right, Match)
    IN IF matches = <<>>
       THEN << [hour |-> l.hour, household_id |-> l.household_id,
                consumption |-> l.consumption, Price |-> NaN] >>
       ELSE Concrete([i \in 1..Len(matches) |->
              [hour |-> l.hour, household_id |-> l.household_id,
               consumption |-> l.consumption, Price |-> matches[i].Price]])

RECURSIVE MergeLeft(_, _)
\* pd.merge(left, right, on='hour', how='left'): the left rows' order is kept.
MergeLeft(left, right) ==
    IF left = <<>> THEN <<>>
    ELSE MergeRow(Head(left), right) \o MergeLeft(Tail(left), right)

\* rename(columns={'hour': 'timestamp', 'Price': 'tariff'})
Rename(df) ==
    Concrete([i \in 1..Len(df) |->
       [timestamp |-> df[i].hour, household_id |-> df[i].household_id,
        consumption |-> df[i].consumption, tariff |-> df[i].Price]])

\* sort_values(by=['timestamp', 'household_id']): rows with equal keys keep
\* their order.
SortValues(df) ==
    SortSeq(df, LAMBDA a, b : KeyRank(a.timestamp, a.household_id)
                              < KeyRank(b.timestamp, b.household_id))

\* merge, rename, sort_values (set_index keeps the rows)
MergedData(left, right) == SortValues(Rename(MergeLeft(left, right)))

AggregateMerge ==
    /\ pc = "cell5"
    /\ consumption_hourly' = ConsumptionHourly(consumption_imputed)
    /\ tariff_hourly' = TariffHourly(tariff_data_filtered)
    /\ merged_data' = MergedData(consumption_hourly', tariff_hourly')
    /\ pc' = "cell6"
    /\ UNCHANGED <<tariff_data, consumption_data, tariff_data_filtered,
                   consumption_data_filtered, consumption_melted,
                   households_to_remove, consumption_melted_filtered,
                   consumption_imputed, missing_values_after_imputation, csv_1a>>
    /\ UNCHANGED wVars

\* ------------------------------------------------------------- cell 6
SaveConsumptionTariff ==
    /\ pc = "cell6"
    /\ csv_1a' = merged_data
    /\ pc' = "cell7"
    /\ UNCHANGED <<tariff_data, consumption_data, tariff_data_filtered,
                   consumption_data_filtered, consumption_melted,
                   households_to_remove, consumption_melted_filtered,
                   consumption_imputed, missing_values_after_imputation,
                   consumption_hourly, tariff_hourly, merged_data>>
    /\ UNCHANGED wVars

\* ------------------------------------------------------------- weather inputs
WeatherCols == <<"solarradiation", "windspeed", "temp", "precip", "humidity">>
Measurements == {WeatherCols[i] : i \in 1..Len(WeatherCols)}
ColNo(c) == CHOOSE i \in 1..Len(WeatherCols) : WeatherCols[i] = c

\* The files 'London,UK*.csv', in the order glob returns them.
FileIds == {1, 2}

\* The datetime column of one file: ascending, a timestamp may repeat.
FileTimes ==
    {ts \in UNION {[1..n -> 0..MaxHour] : n \in 0..MaxFileRows} :
        \A i \in 1..(Len(ts) - 1) : ts[i] <= ts[i + 1]}

WeatherSeeds == {0, 1}

\* Row i of file f as read_csv_with_datetime_index returns it.
WeatherRow(f, i, t, seed) ==
    [datetime |-> t,
     name |-> "London,UK",
     vals |-> [c \in Measurements |-> Num(((f * 5 + i * 3 + seed) * ColNo(c)) % 11)],
     src |-> <<f, i>>]

WeatherFile(f, ts, seed) ==
    Concrete([i \in 1..Len(ts) |-> WeatherRow(f, i, ts[i], seed)])

\* ------------------------------------------------------------- cell 7
RECURSIVE concat(_, _)
\* pd.concat(df_list): the files' rows, the files in list order.
concat(files, ids) ==
    IF ids = <<>> THEN <<>> ELSE files[Head(ids)] \o concat(files, Tail(ids))

is_monotonic_increasing(df) ==
    \A i \in 1..(Len(df) - 1) : df[i].datetime <= df[i + 1].datetime

RECURSIVE Perms(_)
\* Every ordering of the rows of S.
Perms(S) ==
    IF S = {} THEN {<<>>}
    ELSE UNION {{<<x>> \o p : p \in Perms(S \ {x})} : x \in S}

RECURSIVE SortedOrders(_, _)
\* Every ordering of the rows of df that is ascending in datetime, the
\* timestamps ts taken in turn.
SortedOrders(df, ts) ==
    IF ts = <<>> THEN {<<>>}
    ELSE LET tie == {df[i] : i \in {j \in 1..Len(df) : df[j].datetime = Head(ts)}}
         IN {a \o b : a \in Perms(tie), b \in SortedOrders(df, Tail(ts))}

Timestamps(df) == SortedSeq({df[i].datetime : i \in 1..Len(df)})

\* DataFrame.sort_index(), kind='quicksort' by default: an index that is
\* already ascending is left as it is; otherwise the rows are sorted by an
\* algorithm that is not stable, so rows with equal timestamps may end in any
\* order.  The set of frames the call can leave.
sort_index(df) ==
    IF is_monotonic_increasing(df) THEN {df}
    ELSE SortedOrders(df, Timestamps(df))

\* merged_df[['solarradiation', 'windspeed', 'temp', 'precip', 'humidity']]
SelectColumns(df) ==
    Concrete([i \in 1..Len(df) |->
                [datetime |-> df[i].datetime, vals |-> df[i].vals, src |-> df[i].src]])

\* The frames cell 7 can leave: concat, sort_index, the column selection.
Loaded(files) ==
    {SelectColumns(sorted) :
        sorted \in sort_index(concat(files, SortedSeq(DOMAIN files)))}

LoadWeather ==
    /\ pc = "cell7"
    /\ merged_df' \in Loaded(weather_csv)
    /\ pc' = "cell8"
    /\ UNCHANGED <<weather_csv, dedup_df, csv_1b>>
    /\ UNCHANGED ctVars

\* ------------------------------------------------------------- cell 8
DropDuplicatesKeepAll(df) == df
\* merged_df[~merged_df.index.duplicated(keep='first')]
DropDuplicates(df) ==
    LET First(i) == \A j \in 1..(i - 1) : df[j].datetime # df[i].datetime
        keep == SortedSeq({i \in 1..Len(df) : First(i)})
    IN Concrete([k \in 1..Len(keep) |-> df[keep[k]]])

\* merged_df.index.to_series().diff().dropna(): (timestamp, delta) of every
\* row but the first.
TimeDiffs(df) ==
    Concrete([i \in 1..(Len(df) - 1) |->
                [timestamp |-> df[i + 1].datetime,
                 time_diff |-> df[i + 1].datetime - df[i].datetime]])

\* time_diffs[time_diffs != pd.Timedelta(hours=1)]
UnusualEntries(df) ==
    SelectSeq(TimeDiffs(df), LAMBDA e : e.time_diff # 1)

\* merged_df.loc[t] of a frame whose timestamps are unique
Loc(df, t) == df[CHOOSE i \in 1..Len(df) : df[i].datetime = t]

\* a.combine(b, lambda x, y: (float(x) + float(y)) / 2)
Combine(a, b) == [c \in Measurements |-> RDivInt(RAdd(a[c], b[c]), 2)]

\* merged_df.loc[t] = row: the row labelled t is overwritten, or the row is
\* appended when there is none.
SetLoc(df, t, vals) ==
    IF \E i \in 1..Len(df) : df[i].datetime = t
    THEN Concrete([i \in 1..Len(df) |->
                     IF df[i].datetime = t THEN [df[i] EXCEPT !.vals = vals]
                     ELSE df[i]])
    ELSE Append(df, [datetime |-> t, vals |-> vals, src |-> <<0, 0>>])

PatchEntryAnyGap(df, e) ==
    IF e.time_diff >= 2
    THEN LET prev_timestamp == e.timestamp - e.time_diff
             next_timestamp == e.timestamp
             interpolated_row == Combine(Loc(df, prev_timestamp).vals,
                                         Loc(df, next_timestamp).vals)
         IN SetLoc(df, prev_timestamp + 1, interpolated_row)
    ELSE df
\* The body of the loop over unusual_entries.
PatchEntry(df, e) ==
    IF e.time_diff = 2
    THEN LET prev_timestamp == e.timestamp - 2
             next_timestamp == e.timestamp
             interpolated_row == Combine(Loc(df, prev_timestamp).vals,
                                         Loc(df, next_timestamp).vals)
             interpolated_timestamp == prev_timestamp + 1
         IN SetLoc(df, interpolated_timestamp, interpolated_row)
    ELSE df

RECURSIVE PatchLoop(_, _)
\* for timestamp, time_diff in unusual_entries.items(): ...
PatchLoop(df, entries) ==
    IF entries = <<>> THEN df
    ELSE PatchLoop(PatchEntry(df, Head(entries)), Tail(entries))

\* The loop run on the de-duplicated frame, then sort_index.
Patched(df) == sort_index(PatchLoop(df, UnusualEntries(df)))

DedupPatch ==
    /\ pc = "cell8"
    /\ dedup_df' = DropDuplicates(merged_df)
    /\ merged_df' \in Patched(dedup_df')
    /\ pc' = "cell9"
    /\ UNCHANGED <<weather_csv, csv_1b>>
    /\ UNCHANGED ctVars

\* ------------------------------------------------------------- cell 9
SaveWeather ==
    /\ pc = "cell9"
    /\ csv_1b' = merged_df
    /\ pc' = "done"
    /\ UNCHANGED <<weather_csv, merged_df, dedup_df>>
    /\ UNCHANGED ctVars

\* ------------------------------------------------------------- specification
InitCT ==
    /\ pc = "cell2"
    /\ \E sc \in Scenarios :
       \E miss \in [Households -> MissSets] :
          /\ consumption_data = ConsumptionTable(sc[1], miss, sc[1].seed)
          /\ tariff_data = TariffTable(sc[2], sc[2].seed)
    /\ tariff_data_filtered = <<>>
    /\ consumption_data_filtered = <<>>
    /\ consumption_melted = <<>>
    /\ households_to_remove = {}
    /\ consumption_melted_filtered = <<>>
    /\ consumption_imputed = <<>>
    /\ missing_values_after_imputation = 0
    /\ consumption_hourly = <<>>
    /\ tariff_hourly = <<>>
    /\ merged_data = <<>>
    /\ csv_1a = NotWritten
    /\ weather_csv = <<>>
    /\ merged_df = <<>>
    /\ dedup_df = <<>>
    /\ csv_1b = NotWritten

NextCT ==
    \/ FilterYear
    \/ MeltAndRemove
    \/ Impute
    \/ AggregateMerge
    \/ SaveConsumptionTariff

SpecCT == InitCT /\ [][NextCT]_vars

InitW ==
    /\ pc = "cell7"
    /\ \E seed \in WeatherSeeds :
       \E ts \in [FileIds -> FileTimes] :
          weather_csv = [f \in FileIds |-> WeatherFile(f, ts[f], seed)]
    /\ tariff_data = <<>>
    /\ consumption_data = <<>>
    /\ tariff_data_filtered = <<>>
    /\ consumption_data_filtered = <<>>
    /\ consumption_melted = <<>>
    /\ households_to_remove = {}
    /\ consumption_melted_filtered = <<>>
    /\ consumption_imputed = <<>>
    /\ missing_values_after_imputation = 0
    /\ consumption_hourly = <<>>
    /\ tariff_hourly = <<>>
    /\ merged_data = <<>>
    /\ csv_1a = NotWritten
    /\ merged_df = <<>>
    /\ dedup_df = <<>>
    /\ csv_1b = NotWritten

NextW ==
    \/ LoadWeather
    \/ DedupPatch
    \/ SaveWeather

SpecW == InitW /\ [][NextW]_vars

\* ------------------------------------------------------------- claims
\* Cells whose run leaves the named table in place.
AfterImpute == pc \in {"cell5", "cell6", "cell7"}
AfterMerge  == pc \in {"cell6", "cell7"}
AfterSaveCT == pc = "cell7"
AfterPatch  == pc \in {"cell9", "done"}

\* Counted on the wide 2013-filtered table, not on the melted one.
WideRows == Len(consumption_data_filtered)
WideMissing(h) ==
    Cardinality({i \in 1..WideRows : isnull(consumption_data_filtered[i].cols[h])})
InOutput(h) == \E k \in 1..Len(csv_1a) : csv_1a[k].household_id = h

\* C1: once the consumption/tariff file is written, a household column of the
\* 2013-filtered table (which has at least one row) has rows in the file if
\* and only if missing / rows * 100 is not greater than 5; so a household
\* above 5% has no row and a household at exactly 5% is kept.
C1_KeptIffAtMostFivePercent ==
    (AfterSaveCT /\ WideRows > 0) =>
        \A h \in Households :
            InOutput(h) <=> (WideMissing(h) * 100 <= MissingThreshold * WideRows)

C1_Witness ==
    /\ AfterSaveCT
    /\ \E h \in Households :
          WideMissing(h) * 100 > MissingThreshold * WideRows /\ ~InOutput(h)
    /\ \E h \in Households :
          WideMissing(h) * 100 = MissingThreshold * WideRows /\ InOutput(h)

\* The rows of the table before imputation.
Before == consumption_melted_filtered
NullBefore(k) == isnull(Before[k].consumption)
SameHousehold(j, k) == Before[j].household_id = Before[k].household_id
FirstRowOf(h) ==
    CHOOSE k \in 1..Len(Before) :
        /\ Before[k].household_id = h
        /\ \A j \in 1..Len(Before) :
              Before[j].household_id = h => Before[k].GMT <= Before[j].GMT
LastRowOf(h) ==
    CHOOSE k \in 1..Len(Before) :
        /\ Before[k].household_id = h
        /\ \A j \in 1..Len(Before) :
              Before[j].household_id = h => Before[j].GMT <= Before[k].GMT
Retained == {Before[k].household_id : k \in 1..Len(Before)}

\* C2: after the imputation cell, every household that passed the 5% filter
\* has its rows in the imputed table and none of them holds a missing value
\* (the count the cell prints is zero), whichever readings were missing.
C2_NoNullsAfterImputation ==
    AfterImpute =>
        /\ \A k \in 1..Len(consumption_imputed) :
              ~isnull(consumption_imputed[k].consumption)
        /\ {consumption_imputed[k].household_id : k \in 1..Len(consumption_imputed)}
              = Households \ households_to_remove
        /\ missing_values_after_imputation = 0

C2_Witness ==
    /\ AfterImpute
    /\ \E h \in Retained : NullBefore(FirstRowOf(h)) /\ NullBefore(LastRowOf(h))
    /\ \E h \in Retained :
          \E k \in 1..Len(Before) :
              /\ Before[k].household_id = h /\ NullBefore(k)
              /\ k # FirstRowOf(h) /\ k # LastRowOf(h)

\* The raw consumption file holds every half-hour from 2013-01-01 00:00 to
\* 2014-01-01 00:00.
FullGrid ==
    \A t \in 0..YearLen :
        \E i \in 1..Len(consumption_data) : consumption_data[i].GMT = t

\* The imputed readings of household id whose floor(GMT + 30 min) is hour h.
BucketRows(h, id) ==
    {j \in 1..Len(consumption_imputed) :
        /\ consumption_imputed[j].household_id = id
        /\ ((consumption_imputed[j].GMT + 1) \div 2) * 2 = h}

\* C3: for a consumption file with every half-hour of the year, each row of
\* the written file carries the sum of exactly two imputed half-hour readings
\* of its household, those whose floor(GMT + 30 min) is the row's hour, the
\* first and the last hour included.
C3_SumOfExactlyTwo ==
    (AfterSaveCT /\ FullGrid) =>
        \A k \in 1..Len(csv_1a) :
            LET R == BucketRows(csv_1a[k].timestamp, csv_1a[k].household_id)
            IN /\ Cardinality(R) = 2
               /\ \E a \in R : \E b \in R \ {a} :
                     csv_1a[k].consumption
                        = RAdd(consumption_imputed[a].consumption,
                               consumption_imputed[b].consumption)

HourlyPairs ==
    {<<consumption_hourly[i].hour, consumption_hourly[i].household_id>> :
        i \in 1..Len(consumption_hourly)}
RowsOfPair(pr) ==
    {k \in 1..Len(merged_data) :
        merged_data[k].timestamp = pr[1] /\ merged_data[k].household_id = pr[2]}

\* C4: after the merge, every (hour, household) pair of the hourly consumption
\* aggregates has exactly one row in the merged table, with its consumption,
\* whether or not the tariff has a price for the hour, and the merged table
\* has no row for any other pair.
C4_LeftJoin ==
    AfterMerge =>
        /\ \A i \in 1..Len(consumption_hourly) :
              LET rows == RowsOfPair(<<consumption_hourly[i].hour,
                                       consumption_hourly[i].household_id>>)
              IN /\ Cardinality(rows) = 1
                 /\ \A k \in rows :
                       merged_data[k].consumption = consumption_hourly[i].consumption
        /\ \A k \in 1..Len(merged_data) :
              <<merged_data[k].timestamp, merged_data[k].household_id>> \in HourlyPairs

C4_Witness ==
    /\ AfterMerge
    /\ \E k \in 1..Len(merged_data) : isnull(merged_data[k].tariff)
    /\ \E k \in 1..Len(merged_data) : ~isnull(merged_data[k].tariff)
    /\ Cardinality(HourlyPairs) > Len(tariff_hourly)

\* The 2013 prices of the raw tariff file whose floor(GMT + 30 min) is h.
BucketPrices(h) ==
    LET InBucket(row) == /\ 0 <= row.GMT /\ row.GMT < YearLen
                         /\ ((row.GMT + 1) \div 2) * 2 = h
        rows == SelectSeq(tariff_data, InBucket)
    IN Concrete([i \in 1..Len(rows) |-> rows[i].Price])

\* C5: every row of the written file at hour h carries the mean of the 2013
\* tariff prices whose floor(GMT + 30 min) is h, and a null tariff exactly
\* when there is no such price; rows of one hour carry the same tariff.
C5_TariffIsHourlyMean ==
    AfterSaveCT =>
        /\ \A k \in 1..Len(csv_1a) :
              LET P == BucketPrices(csv_1a[k].timestamp)
              IN /\ isnull(csv_1a[k].tariff) <=> P = <<>>
                 /\ P # <<>> =>
                       RMul(csv_1a[k].tariff, Num(Len(P))) = SeqSum(P)
        /\ \A j, k \in 1..Len(csv_1a) :
              csv_1a[j].timestamp = csv_1a[k].timestamp
                 => csv_1a[j].tariff = csv_1a[k].tariff

C5_Witness ==
    /\ AfterSaveCT
    /\ \E k \in 1..Len(csv_1a) : Len(BucketPrices(csv_1a[k].timestamp)) = 0
    /\ \E k \in 1..Len(csv_1a) : Len(BucketPrices(csv_1a[k].timestamp)) = 1
    /\ \E k \in 1..Len(csv_1a) :
          LET P == BucketPrices(csv_1a[k].timestamp)
          IN Len(P) = 2 /\ P[1] # P[2]
    /\ \E j, k \in 1..Len(csv_1a) :
          csv_1a[j].timestamp = csv_1a[k].timestamp /\ j # k

\* The known readings of row k's household before (after) row k's time.
Earlier(k) ==
    {j \in 1..Len(Before) :
        SameHousehold(j, k) /\ ~NullBefore(j) /\ Before[j].GMT < Before[k].GMT}
Later(k) ==
    {j \in 1..Len(Before) :
        SameHousehold(j, k) /\ ~NullBefore(j) /\ Before[j].GMT > Before[k].GMT}
Nearest(S, k) ==
    CHOOSE j \in S :
        \A i \in S : Abs(Before[i].GMT - Before[k].GMT)
                        >= Abs(Before[j].GMT - Before[k].GMT)
Between(v, a, b) == (RLe(a, v) /\ RLe(v, b)) \/ (RLe(b, v) /\ RLe(v, a))

\* C10: imputation keeps the (timestamp, household) rows and every known
\* reading; a filled value comes from the same household: between the nearest
\* earlier and later known readings for an interior gap, the first known
\* reading for a leading gap, the last known reading for a trailing gap.
C10_ImputationOnlyFillsGaps ==
    AfterImpute =>
        /\ Len(consumption_imputed) = Len(Before)
        /\ \A k \in 1..Len(Before) :
              LET v == consumption_imputed[k].consumption
              IN /\ consumption_imputed[k].GMT = Before[k].GMT
                 /\ consumption_imputed[k].household_id = Before[k].household_id
                 /\ ~NullBefore(k) => v = Before[k].consumption
                 /\ (NullBefore(k) /\ Earlier(k) # {} /\ Later(k) # {}) =>
                       Between(v, Before[Nearest(Earlier(k), k)].consumption,
                                  Before[Nearest(Later(k), k)].consumption)
                 /\ (NullBefore(k) /\ Earlier(k) = {} /\ Later(k) # {}) =>
                       v = Before[Nearest(Later(k), k)].consumption
                 /\ (NullBefore(k) /\ Earlier(k) # {} /\ Later(k) = {}) =>
                       v = Before[Nearest(Earlier(k), k)].consumption

C10_Witness ==
    /\ AfterImpute
    /\ \E k \in 1..Len(Before) :
          /\ NullBefore(k) /\ Earlier(k) # {} /\ Later(k) # {}
          /\ consumption_imputed[k].consumption
                # Before[Nearest(Earlier(k), k)].consumption
          /\ consumption_imputed[k].consumption
                # Before[Nearest(Later(k), k)].consumption
    /\ \E k \in 1..Len(Before) :
          /\ NullBefore(k) /\ Earlier(k) = {}
          /\ Before[k].household_id = HouseholdCols[2]
    /\ \E k \in 1..Len(Before) :
          /\ NullBefore(k) /\ Later(k) = {}
          /\ Before[k].household_id = HouseholdCols[1]
    /\ Cardinality(Retained) = 2

\* Every source row, whichever file it is in.
SourceRows ==
    UNION {{weather_csv[f][i] : i \in 1..Len(weather_csv[f])} : f \in DOMAIN weather_csv}
Contiguous(df) ==
    \A i \in 1..(Len(df) - 1) : df[i + 1].datetime - df[i].datetime = 1
NoDuplicates(df) ==
    \A i, j \in 1..Len(df) : df[i].datetime = df[j].datetime => i = j
DedupDiffs == {dedup_df[i + 1].datetime - dedup_df[i].datetime : i \in 1..(Len(dedup_df) - 1)}

\* C6 as stated: after de-duplication and gap patching the weather table has
\* one row per hour, consecutive timestamps one hour apart, none twice, for
\* every set of source files.
C6_OneRowPerHour ==
    AfterPatch => (Contiguous(merged_df) /\ NoDuplicates(merged_df))

\* C6 amended: no timestamp occurs twice, the table spans the hours from the
\* sources' first timestamp to their last, and consecutive timestamps are one
\* hour apart provided every two consecutive de-duplicated source timestamps
\* are exactly one or exactly two hours apart.
C6_OneRowPerHourUpToTwoHourGaps ==
    AfterPatch =>
        /\ NoDuplicates(merged_df)
        /\ {r.datetime : r \in SourceRows}
              \subseteq {merged_df[i].datetime : i \in 1..Len(merged_df)}
        /\ \A i \in 1..Len(merged_df) :
              \E r \in SourceRows : \E q \in SourceRows :
                  r.datetime <= merged_df[i].datetime /\ merged_df[i].datetime <= q.datetime
        /\ DedupDiffs \subseteq {1, 2} => Contiguous(merged_df)

C6_Witness ==
    /\ pc = "done"
    /\ Len(dedup_df) < Cardinality(SourceRows)
    /\ 2 \in DedupDiffs
    /\ 1 \in DedupDiffs
    /\ DedupDiffs \subseteq {1, 2}
    /\ Contiguous(csv_1b)
    /\ Len(csv_1b) > Len(dedup_df)

TwoHourGaps ==
    {i \in 1..(Len(dedup_df) - 1) : dedup_df[i + 1].datetime - dedup_df[i].datetime = 2}
RowsAt(df, t) == {k \in 1..Len(df) : df[k].datetime = t}

\* C7: for every two consecutive de-duplicated rows two hours apart, the
\* patched table has exactly one row at the hour between them, each of its
\* five measurements the average of the two rows'; every de-duplicated row is
\* still there unchanged, and there are no other rows.
C7_TwoHourGapAveraged ==
    AfterPatch =>
        /\ \A i \in TwoHourGaps :
              LET new == RowsAt(merged_df, dedup_df[i].datetime + 1)
              IN /\ Cardinality(new) = 1
                 /\ \A k \in new : \A c \in Measurements :
                       RAdd(merged_df[k].vals[c], merged_df[k].vals[c])
                          = RAdd(dedup_df[i].vals[c], dedup_df[i + 1].vals[c])
        /\ \A i \in 1..Len(dedup_df) :
              \E k \in 1..Len(merged_df) : merged_df[k] = dedup_df[i]
        /\ Len(merged_df) = Len(dedup_df) + Cardinality(TwoHourGaps)

C7_Witness ==
    /\ pc = "done"
    /\ \E i \in TwoHourGaps :
          dedup_df[i].vals["temp"] # dedup_df[i + 1].vals["temp"]
    /\ \E d \in DedupDiffs : d > 2
    /\ Len(csv_1b) = Len(dedup_df) + Cardinality(TwoHourGaps)

\* Source order: the files in reading order, then the rows in file order.
SrcBefore(a, b) == a[1] < b[1] \/ (a[1] = b[1] /\ a[2] < b[2])

\* C9: of the source rows that share a timestamp, de-duplication keeps the
\* one that comes first in source order.
C9_KeepsFirstInSourceOrder ==
    AfterPatch =>
        \A i \in 1..Len(dedup_df) :
            \A r \in SourceRows :
                (r.datetime = dedup_df[i].datetime /\ r.src # dedup_df[i].src)
                    => SrcBefore(dedup_df[i].src, r.src)
====
